---- MODULE Spec2Model ----
(***************************************************************************)
(* zk-bs: a two-player Battleship game whose boards are hidden behind      *)
(* per-cell Blake2s commitments and a Groth16 proof of board validity.     *)
(*                                                                         *)
(*   src/src/constraints.rs  BoardVerifier::generate_constraints           *)
(*   src/src/main.rs         main, setup, initialise, place_battleships,   *)
(*                           generate_randomness, generate_commitments,    *)
(*                           generate_proof, verify_initial_proof,         *)
(*                           verify_move, perform_turn, check_winner       *)
(*                                                                         *)
(* Rust vectors are modelled as sequences; the 0-based index t of the code *)
(* is position t + 1 of the sequence.                                      *)
(***************************************************************************)
EXTENDS Integers, Sequences, FiniteSets, TLC

\* Longest board (and largest board_size) explored.
MaxLen == 2
\* Largest byte value a board cell takes (cells are u8; 2 is a non-binary byte).
MaxCell == 2
\* Number of distinct 32-byte randomness values the random source can return.
NumRand == 2
TwinLen == 4

VARIABLES
    circuit,      \* the BoardVerifier instance handed to generate_constraints
    cs_result,    \* outcome of generate_constraints followed by cs.is_satisfied()
    pc,           \* position of main
    board_size,   \* main: board_size
    num_ships,    \* main: num_ships
    n_placed,     \* place_battleships: loop counter _n
    board,        \* main: board_a, board_b (live boards, 1 = battleship)
    view_board,   \* main: board_a_b, board_b_a (attacker's view of the opponent)
    randomness,   \* main: randomness_a, randomness_b
    commitments,  \* main: commitments_a, commitments_b
    proof,        \* main: proof_a / pvk_a, proof_b / pvk_b
    res,          \* main: res, res2 (FALSE until verify_initial_proof returns)
    winner,       \* the player the program declares winner before exit
    ended_by,     \* which call ended the process
    committed,    \* history: board and randomness given to generate_commitments
    opened,       \* history: verify_move calls per defender and tile
    last,         \* history: what the last turn did
    calls,        \* history: per player, the setup steps main has run for them
    turns,        \* history: turns taken while every attack chose an unknown tile
    twin          \* a second run of player A's attacks, on another board of B

vars == <<circuit, cs_result, pc, board_size, num_ships, n_placed, board,
          view_board, randomness, commitments, proof, res, winner, ended_by,
          committed, opened, last, calls, turns, twin>>

gameVars == <<pc, board_size, num_ships, n_placed, board, view_board,
              randomness, commitments, proof, res, winner, ended_by,
              committed, opened, last, calls, turns, twin>>

Players == {"a", "b"}

Other(p) == IF p = "a" THEN "b" ELSE "a"

\* Byte values of a cell, and the values of the random source.
Cells == 0..MaxCell
Rand == 1..NumRand

\* All sequences over S of length at most n.
BoundedSeq(S, n) == UNION {[1..k -> S] : k \in 0..n}

Min(x, y) == IF x <= y THEN x ELSE y

\* What the random source can return for n cells.  The values are opaque: the
\* program only ever compares digests made from them, so one representative is
\* kept per pattern of equal and different values (value k + 1 is first drawn
\* after value k).
RandDraws(n) ==
    {s \in [1..n -> Rand] :
        \A i \in 1..n : \A v \in 1..(s[i] - 1) : \E j \in 1..(i - 1) : s[j] = v}

(***************************************************************************)
(* Commitment::commit(&(), &[value], &r): Blake2s over value || r.  The    *)
(* hash is an external primitive, taken as deterministic and injective: a  *)
(* digest is modelled by an injective encoding of (value, r), value a byte.*)
(***************************************************************************)
Commit(value, r) == r * 256 + value

Digest == {Commit(v, r) : v \in Cells, r \in Rand}

\* Arithmetic sum of a sequence of cells.
RECURSIVE Sum(_)
Sum(s) == IF s = <<>> THEN 0 ELSE s[1] + Sum(Tail(s))

\* Faulty variant: every cell is committed with the first randomness.
generate_commitments_first_rand(b, rnd) ==
    [i \in 1..Len(b) |-> Commit(b[i], rnd[1])]

(***************************************************************************)
(* generate_commitments: one digest per board cell, from the randomness of *)
(* the same index.                                                         *)
(***************************************************************************)
generate_commitments(b, rnd) ==
    [i \in 1..Len(b) |-> Commit(b[i], rnd[i])]

(***************************************************************************)
(* BoardVerifier::generate_constraints, one operator per enforced check.   *)
(* A cell byte becomes the field element of the same value; the field is   *)
(* far larger than any sum of bytes, so sums are exact.                    *)
(***************************************************************************)

\* Faulty variant: the ship count is only an upper bound of the sum.
num_ships_at_least(ships, b) == ships >= Sum(b)

\* ships.is_eq(&board_sum)
num_ships_correct(ships, b) == ships = Sum(b)

\* Faulty variant: "and" for "or": a cell is valid only if it is zero and one at once.
values_zero_and_one(b) == \A i \in 1..Len(b) : b[i] = 0 /\ b[i] = 1

\* Faulty variant: the range check is skipped for the first cell.
values_valid_after_first(b) == \A i \in 2..Len(b) : b[i] = 0 \/ b[i] = 1

\* AND over the cells of (i.is_zero() OR i.is_one())
values_are_valid(b) == \A i \in 1..Len(b) : b[i] = 0 \/ b[i] = 1

\* Faulty variant: a board shorter than the declared size is accepted, as if padded.
board_size_padded(b_size, b) == b_size >= Len(b)

\* b_size.is_eq(&board_len), board_len counted over the witnessed cells
board_size_correct(b_size, b) == b_size = Len(b)

\* Faulty variant: the last cell's commitment is left unconstrained.
commitments_equal_but_last(comms, b, rng_in) ==
    \A i \in 1..(Len(b) - 1) : comms[i] = Commit(b[i], rng_in[i])

\* all_comm_witness[i].enforce_equal(&results_vec[i]) for every cell i
commitments_equal(comms, b, rng_in) ==
    \A i \in 1..Len(b) : comms[i] = Commit(b[i], rng_in[i])

\* Indexing all_rng_witness[i] or all_comm_witness[i] past the end aborts.
index_panics(comms, b, rng_in) ==
    Len(rng_in) < Len(b) \/ Len(comms) < Len(b)

generate_constraints(c) ==
    IF index_panics(c.commitments, c.board, c.rng_in)
    THEN "panic"
    ELSE IF /\ commitments_equal(c.commitments, c.board, c.rng_in)
            /\ num_ships_correct(c.ships, c.board)
            /\ values_are_valid(c.board)
            /\ board_size_correct(c.b_size, c.board)
         THEN "satisfied"
         ELSE "unsatisfied"

BoardVerifier(ships, b_size, comms, b, rng_in) ==
    [ships |-> ships, b_size |-> b_size, commitments |-> comms,
     board |-> b, rng_in |-> rng_in]

NoCircuit == BoardVerifier(0, 0, <<>>, <<>>, <<>>)

(***************************************************************************)
(* State of the game before main runs.                                     *)
(***************************************************************************)
NoProof == [valid |-> FALSE, inputs |-> <<>>]
NoTurn == [attacker |-> "none", t |-> 0, kind |-> "none"]
NoCalls == [place |-> 0, commit |-> 0, prove |-> 0, verify |-> 0]
NoTwin == [board |-> <<>>, placed |-> <<>>, commitments |-> <<>>,
           view_board |-> <<>>, opened |-> <<>>, kind |-> "none",
           over |-> FALSE]

GameStart ==
    /\ pc = "setup"
    /\ board_size = 0
    /\ num_ships = 0
    /\ n_placed = 0
    /\ board = [p \in Players |-> <<>>]
    /\ view_board = [p \in Players |-> <<>>]
    /\ randomness = [p \in Players |-> <<>>]
    /\ commitments = [p \in Players |-> <<>>]
    /\ proof = [p \in Players |-> NoProof]
    /\ res = [p \in Players |-> FALSE]
    /\ winner = "none"
    /\ ended_by = "none"
    /\ committed = [p \in Players |-> [board |-> <<>>, rand |-> <<>>]]
    /\ opened = [p \in Players |-> <<>>]
    /\ last = NoTurn
    /\ calls = [p \in Players |-> NoCalls]
    /\ turns = [n |-> 0, valid |-> TRUE]
    /\ twin = NoTwin

(***************************************************************************)
(* SpecCircuit: generate_constraints as a pure function of a BoardVerifier.*)
(* The inputs are every board up to MaxLen cells, a randomness list as     *)
(* long as the board or one off, and a commitment list that is the honest  *)
(* table, or the honest table with one digest replaced, one digest         *)
(* appended or the last digest dropped.                                    *)
(***************************************************************************)
HonestTable(b, rng_in) ==
    [i \in 1..Min(Len(b), Len(rng_in)) |-> Commit(b[i], rng_in[i])]

TableVariants(h) ==
    {h}
    \cup {[h EXCEPT ![k] = d] : k \in DOMAIN h, d \in Digest}
    \cup {Append(h, d) : d \in Digest}
    \cup (IF h = <<>> THEN {} ELSE {SubSeq(h, 1, Len(h) - 1)})

InitCircuit ==
    /\ \E b \in BoundedSeq(Cells, MaxLen) :
       \E rng_in \in UNION {RandDraws(k) : k \in 0..MaxLen} :
       \E ships \in 0..(MaxLen + 1) :
       \E b_size \in 0..(MaxLen + 1) :
          /\ Len(rng_in) \in {Len(b) - 1, Len(b), Len(b) + 1}
          /\ \E comms \in TableVariants(HonestTable(b, rng_in)) :
                circuit = BoardVerifier(ships, b_size, comms, b, rng_in)
    /\ cs_result = "none"
    /\ GameStart

Synthesize ==
    /\ cs_result = "none"
    /\ cs_result' = generate_constraints(circuit)
    /\ UNCHANGED <<circuit, gameVars>>

NextCircuit == Synthesize

SpecCircuit == InitCircuit /\ [][NextCircuit]_vars

(***************************************************************************)
(* The game: main and the functions it calls.                              *)
(***************************************************************************)
Zeros(n) == [i \in 1..n |-> 0]

\* Faulty variant: both halves of the loop body pass player A's arguments.
Attacker_always_a == "a"

\* The player whose perform_turn call main is about to make.
Attacker == IF pc = "turn_a" THEN "a" ELSE "b"

\* setup: both numbers are parsed as u8; then main allocates the four boards.
Setup(bs, ns) ==
    /\ pc = "setup"
    /\ board_size' = bs
    /\ num_ships' = ns
    /\ board' = [p \in Players |-> Zeros(bs)]
    /\ view_board' = [p \in Players |-> Zeros(bs)]
    /\ opened' = [p \in Players |-> Zeros(bs)]
    /\ n_placed' = 0
    /\ pc' = "place_a"
    /\ UNCHANGED <<circuit, cs_result, randomness, commitments, proof, res,
                   winner, ended_by, committed, last, calls, turns, twin>>

Placing == IF pc = "place_a" THEN "a" ELSE "b"

\* One iteration of the loop of place_battleships on typed input target.
place_battleships(b, target) ==
    IF target > Len(b) THEN [panic |-> FALSE, board |-> b]
    ELSE IF target = Len(b) THEN [panic |-> TRUE, board |-> b]
    ELSE IF b[target + 1] = 0
         THEN [panic |-> FALSE, board |-> [b EXCEPT ![target + 1] = 1]]
         ELSE [panic |-> FALSE, board |-> b]

Place(target) ==
    /\ pc \in {"place_a", "place_b"}
    /\ n_placed < num_ships
    /\ LET r == place_battleships(board[Placing], target)
       IN  /\ board' = [board EXCEPT ![Placing] = r.board]
           /\ pc' = IF r.panic THEN "panic" ELSE pc
    /\ n_placed' = n_placed + 1
    /\ calls' = [calls EXCEPT ![Placing].place = @ + 1]
    /\ UNCHANGED <<circuit, cs_result, board_size, num_ships, view_board,
                   randomness, commitments, proof, res, winner, ended_by,
                   committed, opened, last, turns, twin>>

\* initialise, after a player's placement loop: generate_randomness draws
\* board_size values and generate_commitments commits the board as placed.
GenerateCommit(rnd) ==
    /\ pc \in {"place_a", "place_b"}
    /\ n_placed = num_ships
    /\ randomness' = [randomness EXCEPT ![Placing] = rnd]
    /\ commitments' = [commitments EXCEPT
                         ![Placing] = generate_commitments(board[Placing], rnd)]
    /\ committed' = [committed EXCEPT
                       ![Placing] = [board |-> board[Placing], rand |-> rnd]]
    /\ n_placed' = 0
    /\ pc' = IF pc = "place_a" THEN "place_b" ELSE "prove_a"
    /\ calls' = [calls EXCEPT ![Placing].commit = @ + 1]
    /\ UNCHANGED <<circuit, cs_result, board_size, num_ships, board,
                   view_board, proof, res, winner, ended_by, opened, last,
                   turns, twin>>

\* Faulty variant: b_size is pushed before ships.
PublicInputs_size_first(comms, ships, b_size) == <<b_size, ships>> \o comms

\* The public inputs in the order verify_initial_proof pushes them.
PublicInputs(comms, ships, b_size) == <<ships, b_size>> \o comms

\* The public inputs in the order generate_constraints allocates them with
\* new_input / new_input_vec: ships, b_size, then one entry per commitment
\* (the gadget parameters are the unit value and allocate nothing).
allocated_inputs(c) ==
    <<c.ships>> \o <<c.b_size>> \o [i \in 1..Len(c.commitments) |-> c.commitments[i]]

Proving == IF pc = "prove_a" THEN "a" ELSE "b"

\* generate_proof: the circuit is synthesized for key generation and again by
\* the prover.  An index abort of generate_constraints aborts the process.  On
\* an unsatisfied circuit the prover of a debug build aborts on its
\* satisfaction assertion; a release build returns a proof that does not verify.
GenerateProof(debug_build) ==
    /\ pc \in {"prove_a", "prove_b"}
    /\ LET c == BoardVerifier(num_ships, board_size, commitments[Proving],
                              board[Proving], randomness[Proving])
           out == generate_constraints(c)
       IN  /\ circuit' = c
           /\ cs_result' = out
           /\ proof' = [proof EXCEPT ![Proving] =
                          [valid |-> out = "satisfied",
                           inputs |-> allocated_inputs(c)]]
           /\ pc' = IF out = "panic" \/ (out = "unsatisfied" /\ debug_build)
                    THEN "panic"
                    ELSE IF pc = "prove_a" THEN "verify_a" ELSE "verify_b"
    /\ calls' = [calls EXCEPT ![Proving].prove = @ + 1]
    /\ UNCHANGED <<board_size, num_ships, n_placed, board, view_board,
                   randomness, commitments, res, winner, ended_by, committed,
                   opened, last, turns, twin>>

\* verify_initial_proof: Groth16 verification accepts exactly a proof of a
\* satisfied circuit checked against the public inputs it was made for.
verify_initial_proof(comms, ships, b_size, prf) ==
    prf.valid /\ prf.inputs = PublicInputs(comms, ships, b_size)

\* Faulty variant: the second verification is given player A's arguments.
Verifying_always_a == "a"

Verifying == IF pc = "verify_a" THEN "a" ELSE "b"

\* main: res / res2 are printed; both branches fall through to what follows.
VerifyInitialProof ==
    /\ pc \in {"verify_a", "verify_b"}
    /\ res' = [res EXCEPT ![Verifying] =
                 verify_initial_proof(commitments[Verifying], num_ships,
                                      board_size, proof[Verifying])]
    /\ pc' = IF pc = "verify_a" THEN "prove_b" ELSE "turn_a"
    /\ calls' = [calls EXCEPT ![Verifying].verify = @ + 1]
    /\ UNCHANGED <<circuit, cs_result, board_size, num_ships, n_placed, board,
                   view_board, randomness, commitments, proof, winner,
                   ended_by, committed, opened, last, turns, twin>>

\* Faulty variant: only the value part of the opening is compared.
verify_move_value_only(ship, rnd, commitment) == commitment % 256 = ship

\* verify_move: recompute the commitment and compare with the stored digest.
verify_move(ship, rnd, commitment) == Commit(ship, rnd) = commitment

\* Faulty variant: only tiles marked 2 count as attacked.
already_attacked_if_two(view, t) == view[t + 1] = 2

\* perform_turn: the early return on a tile already marked in the view.
already_attacked(view, t) == view[t + 1] # 0

\* The marks perform_turn writes into the view on its hit and miss branches.
HitMark == 2
MissMark == 1

\* Faulty variant: the boards are updated before verify_move is called, so a
\* detected mismatch leaves the tile marked.
perform_turn_update_first(p_board, view, target_randomness, target_commitment, t) ==
    LET same == [kind |-> "none", p_board |-> p_board, view_board |-> view]
    IN
    IF t >= Len(view) THEN [same EXCEPT !.kind = "panic"]
    ELSE IF view[t + 1] # 0 THEN [same EXCEPT !.kind = "rejected"]
    ELSE IF p_board[t + 1] = 1
         THEN [kind |-> IF Commit(1, target_randomness[t + 1]) = target_commitment[t + 1]
                        THEN "hit" ELSE "cheat",
               p_board |-> [p_board EXCEPT ![t + 1] = 0],
               view_board |-> [view EXCEPT ![t + 1] = HitMark]]
         ELSE [kind |-> IF Commit(0, target_randomness[t + 1]) = target_commitment[t + 1]
                        THEN "miss" ELSE "cheat",
               p_board |-> p_board,
               view_board |-> [view EXCEPT ![t + 1] = MissMark]]

\* Faulty variant: a hit clears the first cell of the defender's board.
perform_turn_clears_first(p_board, view, target_randomness, target_commitment, t) ==
    LET same == [kind |-> "none", p_board |-> p_board, view_board |-> view]
    IN
    IF t >= Len(view) THEN [same EXCEPT !.kind = "panic"]
    ELSE IF view[t + 1] # 0 THEN [same EXCEPT !.kind = "rejected"]
    ELSE IF t >= Len(p_board) \/ t >= Len(target_randomness)
            \/ t >= Len(target_commitment)
         THEN [same EXCEPT !.kind = "panic"]
    ELSE IF p_board[t + 1] = 1
         THEN IF Commit(1, target_randomness[t + 1]) = target_commitment[t + 1]
              THEN [kind |-> "hit",
                    p_board |-> [p_board EXCEPT ![1] = 0],
                    view_board |-> [view EXCEPT ![t + 1] = HitMark]]
              ELSE [same EXCEPT !.kind = "cheat"]
         ELSE IF Commit(0, target_randomness[t + 1]) = target_commitment[t + 1]
              THEN [kind |-> "miss",
                    p_board |-> p_board,
                    view_board |-> [view EXCEPT ![t + 1] = MissMark]]
              ELSE [same EXCEPT !.kind = "cheat"]

\* Faulty variant: a hit is recorded in the view but the ship stays on the
\* defender's board.
perform_turn_keeps_ship(p_board, view, target_randomness, target_commitment, t) ==
    LET same == [kind |-> "none", p_board |-> p_board, view_board |-> view]
    IN
    IF t >= Len(view) THEN [same EXCEPT !.kind = "panic"]
    ELSE IF view[t + 1] # 0 THEN [same EXCEPT !.kind = "rejected"]
    ELSE IF t >= Len(p_board) \/ t >= Len(target_randomness)
            \/ t >= Len(target_commitment)
         THEN [same EXCEPT !.kind = "panic"]
    ELSE IF p_board[t + 1] = 1
         THEN IF Commit(1, target_randomness[t + 1]) = target_commitment[t + 1]
              THEN [kind |-> "hit",
                    p_board |-> p_board,
                    view_board |-> [view EXCEPT ![t + 1] = HitMark]]
              ELSE [same EXCEPT !.kind = "cheat"]
         ELSE IF Commit(0, target_randomness[t + 1]) = target_commitment[t + 1]
              THEN [kind |-> "miss",
                    p_board |-> p_board,
                    view_board |-> [view EXCEPT ![t + 1] = MissMark]]
              ELSE [same EXCEPT !.kind = "cheat"]

\* Faulty variant: a hit clears the ship but is not recorded in the view.
perform_turn_hit_unmarked(p_board, view, target_randomness, target_commitment, t) ==
    LET same == [kind |-> "none", p_board |-> p_board, view_board |-> view]
    IN
    IF t >= Len(view) THEN [same EXCEPT !.kind = "panic"]
    ELSE IF view[t + 1] # 0 THEN [same EXCEPT !.kind = "rejected"]
    ELSE IF t >= Len(p_board) \/ t >= Len(target_randomness)
            \/ t >= Len(target_commitment)
         THEN [same EXCEPT !.kind = "panic"]
    ELSE IF p_board[t + 1] = 1
         THEN IF Commit(1, target_randomness[t + 1]) = target_commitment[t + 1]
              THEN [kind |-> "hit",
                    p_board |-> [p_board EXCEPT ![t + 1] = 0],
                    view_board |-> view]
              ELSE [same EXCEPT !.kind = "cheat"]
         ELSE IF Commit(0, target_randomness[t + 1]) = target_commitment[t + 1]
              THEN [kind |-> "miss",
                    p_board |-> p_board,
                    view_board |-> [view EXCEPT ![t + 1] = MissMark]]
              ELSE [same EXCEPT !.kind = "cheat"]

\* Faulty variant: a hit is recorded in the view with the mark of a miss.
perform_turn_hit_as_miss(p_board, view, target_randomness, target_commitment, t) ==
    LET same == [kind |-> "none", p_board |-> p_board, view_board |-> view]
    IN
    IF t >= Len(view) THEN [same EXCEPT !.kind = "panic"]
    ELSE IF view[t + 1] # 0 THEN [same EXCEPT !.kind = "rejected"]
    ELSE IF t >= Len(p_board) \/ t >= Len(target_randomness)
            \/ t >= Len(target_commitment)
         THEN [same EXCEPT !.kind = "panic"]
    ELSE IF p_board[t + 1] = 1
         THEN IF Commit(1, target_randomness[t + 1]) = target_commitment[t + 1]
              THEN [kind |-> "hit",
                    p_board |-> [p_board EXCEPT ![t + 1] = 0],
                    view_board |-> [view EXCEPT ![t + 1] = MissMark]]
              ELSE [same EXCEPT !.kind = "cheat"]
         ELSE IF Commit(0, target_randomness[t + 1]) = target_commitment[t + 1]
              THEN [kind |-> "miss",
                    p_board |-> p_board,
                    view_board |-> [view EXCEPT ![t + 1] = MissMark]]
              ELSE [same EXCEPT !.kind = "cheat"]

\* Faulty variant: verify_move is given the randomness and the commitment of
\* the first tile instead of those of the attacked tile.
perform_turn_opens_first(p_board, view, target_randomness, target_commitment, t) ==
    LET same == [kind |-> "none", p_board |-> p_board, view_board |-> view]
    IN
    IF t >= Len(view) THEN [same EXCEPT !.kind = "panic"]
    ELSE IF view[t + 1] # 0 THEN [same EXCEPT !.kind = "rejected"]
    ELSE IF t >= Len(p_board) \/ t >= Len(target_randomness)
            \/ t >= Len(target_commitment)
         THEN [same EXCEPT !.kind = "panic"]
    ELSE IF p_board[t + 1] = 1
         THEN IF Commit(1, target_randomness[1]) = target_commitment[1]
              THEN [kind |-> "hit",
                    p_board |-> [p_board EXCEPT ![t + 1] = 0],
                    view_board |-> [view EXCEPT ![t + 1] = HitMark]]
              ELSE [same EXCEPT !.kind = "cheat"]
         ELSE IF Commit(0, target_randomness[1]) = target_commitment[1]
              THEN [kind |-> "miss",
                    p_board |-> p_board,
                    view_board |-> [view EXCEPT ![t + 1] = MissMark]]
              ELSE [same EXCEPT !.kind = "cheat"]

\* Faulty variant: a miss is verified but not recorded in the view.
perform_turn_miss_unmarked(p_board, view, target_randomness, target_commitment, t) ==
    LET same == [kind |-> "none", p_board |-> p_board, view_board |-> view]
    IN
    IF t >= Len(view) THEN [same EXCEPT !.kind = "panic"]
    ELSE IF view[t + 1] # 0 THEN [same EXCEPT !.kind = "rejected"]
    ELSE IF t >= Len(p_board) \/ t >= Len(target_randomness)
            \/ t >= Len(target_commitment)
         THEN [same EXCEPT !.kind = "panic"]
    ELSE IF p_board[t + 1] = 1
         THEN IF Commit(1, target_randomness[t + 1]) = target_commitment[t + 1]
              THEN [kind |-> "hit",
                    p_board |-> [p_board EXCEPT ![t + 1] = 0],
                    view_board |-> [view EXCEPT ![t + 1] = HitMark]]
              ELSE [same EXCEPT !.kind = "cheat"]
         ELSE IF Commit(0, target_randomness[t + 1]) = target_commitment[t + 1]
              THEN [same EXCEPT !.kind = "miss"]
              ELSE [same EXCEPT !.kind = "cheat"]

\* perform_turn on typed tile t.  kind: "panic" (index past the end),
\* "rejected" (already attacked), "cheat" (verify_move exits the process),
\* "hit" or "miss".
perform_turn(p_board, view, target_randomness, target_commitment, t) ==
    LET same == [kind |-> "none", p_board |-> p_board, view_board |-> view]
    IN
    IF t >= Len(view) THEN [same EXCEPT !.kind = "panic"]
    ELSE IF already_attacked(view, t) THEN [same EXCEPT !.kind = "rejected"]
    ELSE IF t >= Len(p_board) \/ t >= Len(target_randomness)
            \/ t >= Len(target_commitment)
         THEN [same EXCEPT !.kind = "panic"]
    ELSE IF p_board[t + 1] = 1
         THEN IF verify_move(1, target_randomness[t + 1], target_commitment[t + 1])
              THEN [kind |-> "hit",
                    p_board |-> [p_board EXCEPT ![t + 1] = 0],
                    view_board |-> [view EXCEPT ![t + 1] = HitMark]]
              ELSE [same EXCEPT !.kind = "cheat"]
         ELSE IF verify_move(0, target_randomness[t + 1], target_commitment[t + 1])
              THEN [kind |-> "miss",
                    p_board |-> p_board,
                    view_board |-> [view EXCEPT ![t + 1] = MissMark]]
              ELSE [same EXCEPT !.kind = "cheat"]

\* Faulty variant: the game is won with one ship cell still afloat.
check_winner_one_left(b) == Sum(b) <= 1

\* check_winner: the sum of the defender's live board is zero.
check_winner(b) == Sum(b) = 0

\* One half of the body of main's loop: perform_turn on the opponent's board,
\* then check_winner on it.
Turn(t) ==
    /\ pc \in {"turn_a", "turn_b"}
    /\ LET att == Attacker
           def == Other(att)
           r == perform_turn(board[def], view_board[att], randomness[def],
                             commitments[def], t)
           called == r.kind \in {"hit", "miss", "cheat"}
       IN  /\ board' = [board EXCEPT ![def] = r.p_board]
           /\ view_board' = [view_board EXCEPT ![att] = r.view_board]
           /\ opened' = IF called
                        THEN [opened EXCEPT ![def][t + 1] = @ + 1]
                        ELSE opened
           /\ last' = [attacker |-> att, t |-> t, kind |-> r.kind]
           /\ turns' = IF turns.valid /\ r.kind \in {"hit", "miss", "cheat"}
                       THEN [turns EXCEPT !.n = @ + 1]
                       ELSE [n |-> 0, valid |-> FALSE]
           /\ IF r.kind = "panic"
              THEN /\ pc' = "panic"
                   /\ UNCHANGED <<winner, ended_by>>
              ELSE IF r.kind = "cheat"
              THEN /\ pc' = "exit"
                   /\ winner' = att
                   /\ ended_by' = "verify_move"
              ELSE IF check_winner(r.p_board)
              THEN /\ pc' = "exit"
                   /\ winner' = att
                   /\ ended_by' = "check_winner"
              ELSE /\ pc' = IF att = "a" THEN "turn_b" ELSE "turn_a"
                   /\ UNCHANGED <<winner, ended_by>>
    /\ UNCHANGED <<circuit, cs_result, board_size, num_ships, n_placed,
                   randomness, commitments, proof, res, committed, calls>>

Init ==
    /\ circuit = NoCircuit
    /\ cs_result = "none"
    /\ GameStart

Next ==
    \/ \E bs \in 0..MaxLen, ns \in 0..MaxLen : Setup(bs, ns)
    \/ \E target \in 0..(MaxLen + 1) : Place(target)
    \/ \E rnd \in RandDraws(board_size) : GenerateCommit(rnd)
    \/ \E debug_build \in BOOLEAN : GenerateProof(debug_build)
    \/ VerifyInitialProof
    \/ \E t \in 0..MaxLen : Turn(t) /\ UNCHANGED twin

Spec == Init /\ [][Next]_vars

\* A turn whose typed tile is on the board and unknown in the attacker's view.
ValidTurn ==
    \E t \in 0..MaxLen :
        /\ t < Len(view_board[Attacker])
        /\ view_board[Attacker][t + 1] = 0
        /\ Turn(t)
        /\ UNCHANGED twin

\* The game when every attack selects an unknown tile of the board.  Each
\* perform_turn blocks only on reading the attacker's line, so a player who
\* keeps typing such tiles gets every turn taken.
NextValid ==
    \/ \E bs \in 0..MaxLen, ns \in 0..MaxLen : Setup(bs, ns)
    \/ \E target \in 0..(MaxLen + 1) : Place(target)
    \/ \E rnd \in RandDraws(board_size) : GenerateCommit(rnd)
    \/ \E debug_build \in BOOLEAN : GenerateProof(debug_build)
    \/ VerifyInitialProof
    \/ ValidTurn

SpecValid == Init /\ [][NextValid]_vars /\ WF_vars(ValidTurn)

(***************************************************************************)
(* Properties of the circuit, checked under SpecCircuit.                   *)
(***************************************************************************)
Synthesized == cs_result # "none"

\* Every cell of the board has its own randomness and commitment entry.
TablesCoverBoard ==
    /\ Len(circuit.rng_in) >= Len(circuit.board)
    /\ Len(circuit.commitments) >= Len(circuit.board)

\* The four invariants of a valid board, stated on the circuit's inputs.
SizeHolds == Len(circuit.board) = circuit.b_size
RangeHolds == \A i \in DOMAIN circuit.board : circuit.board[i] \in {0, 1}
SumHolds == Sum(circuit.board) = circuit.ships
OpensAt(i) ==
    /\ i \in DOMAIN circuit.commitments
    /\ i \in DOMAIN circuit.rng_in
    /\ circuit.commitments[i] = Commit(circuit.board[i], circuit.rng_in[i])
CommitmentsHold == \A i \in DOMAIN circuit.board : OpensAt(i)

\* The circuit was built and its constraint system is not satisfied.
Unsatisfied ==
    /\ cs_result # "satisfied"
    /\ TablesCoverBoard => cs_result = "unsatisfied"

\* C1: completeness.  A board of the declared length, with binary cells, whose
\* number of ship cells is the declared ship count and whose every commitment
\* opens to its cell, satisfies the circuit; the all-zero and all-one boards
\* are among them.
C1_Completeness ==
    (/\ Synthesized
     /\ SizeHolds
     /\ RangeHolds
     /\ Cardinality({i \in DOMAIN circuit.board : circuit.board[i] = 1})
           = circuit.ships
     /\ CommitmentsHold)
    => cs_result = "satisfied"

\* A satisfied circuit on a mixed board of the longest length.
C1_Witness ==
    /\ cs_result = "satisfied"
    /\ Len(circuit.board) = MaxLen
    /\ \E i, j \in DOMAIN circuit.board :
          circuit.board[i] = 1 /\ circuit.board[j] = 0

\* C2: the sum check is exact.  A declared ship count different from the sum
\* of the cells, larger or smaller, leaves the circuit unsatisfied.
C2_SumExact ==
    (Synthesized /\ circuit.ships # Sum(circuit.board)) => Unsatisfied

\* Only the sum check fails, with a ship count above the sum.
C2_Witness ==
    /\ cs_result = "unsatisfied"
    /\ circuit.ships > Sum(circuit.board)
    /\ Sum(circuit.board) > 0
    /\ SizeHolds /\ RangeHolds /\ CommitmentsHold

\* C3: the range check does not depend on the ship count.  A cell outside
\* {0, 1} leaves the circuit unsatisfied whatever ship count is declared.
C3_RangeIndependent ==
    (Synthesized /\ \E i \in DOMAIN circuit.board : circuit.board[i] \notin {0, 1})
    => Unsatisfied

\* Only the range check fails: the ship count is the sum of the cells.
C3_Witness ==
    /\ cs_result = "unsatisfied"
    /\ \E i \in DOMAIN circuit.board : circuit.board[i] = 2
    /\ SizeHolds /\ SumHolds /\ CommitmentsHold

\* C4: the size check.  A declared size different from the length of the
\* witnessed board, larger or smaller, leaves the circuit unsatisfied.
C4_SizeChecked ==
    (Synthesized /\ circuit.b_size # Len(circuit.board)) => Unsatisfied

\* Only the size check fails, with a declared size above the board's length.
C4_Witness ==
    /\ cs_result = "unsatisfied"
    /\ circuit.b_size > Len(circuit.board)
    /\ Len(circuit.board) > 0
    /\ RangeHolds /\ SumHolds /\ CommitmentsHold

\* C5: the commitment check.  A cell whose public commitment is not the
\* commitment of its value under its randomness leaves the circuit unsatisfied.
C5_CommitmentChecked ==
    (Synthesized /\ \E i \in DOMAIN circuit.board : ~OpensAt(i)) => Unsatisfied

\* Only the commitment check fails: the last cell's digest was made with the
\* right value and another randomness.
C5_Witness ==
    /\ cs_result = "unsatisfied"
    /\ SizeHolds /\ RangeHolds /\ SumHolds
    /\ TablesCoverBoard
    /\ LET n == Len(circuit.board)
       IN  /\ n > 1
           /\ \A i \in 1..(n - 1) : OpensAt(i)
           /\ \E r \in Rand :
                 /\ r # circuit.rng_in[n]
                 /\ circuit.commitments[n] = Commit(circuit.board[n], r)

(***************************************************************************)
(* SpecPlay: the turn loop of main as a function of the tables it is given.*)
(* The commitments are those generate_commitments made from a committed    *)
(* board and randomness; the live board and the randomness a player later  *)
(* opens are the committed ones, or differ from them at one tile (a        *)
(* defender who does not reveal what was committed).                       *)
(***************************************************************************)
InitPlay ==
    /\ circuit = NoCircuit
    /\ cs_result = "none"
    /\ \E n \in 1..MaxLen :
       \E cb \in [1..n -> {0, 1}] :
       \E cr \in RandDraws(n) :
       \E k \in 1..n, v \in Cells, r \in Rand :
       \E cheats \in SUBSET Players :
          /\ board_size = n
          /\ num_ships = Sum(cb)
          /\ board = [p \in Players |->
                        IF p \in cheats THEN [cb EXCEPT ![k] = v] ELSE cb]
          /\ randomness = [p \in Players |->
                             IF p \in cheats THEN [cr EXCEPT ![k] = r] ELSE cr]
          /\ commitments = [p \in Players |-> generate_commitments(cb, cr)]
          /\ committed = [p \in Players |-> [board |-> cb, rand |-> cr]]
          /\ view_board = [p \in Players |-> Zeros(n)]
          /\ opened = [p \in Players |-> Zeros(n)]
          /\ proof = [p \in Players |->
                        [valid |-> TRUE,
                         inputs |-> PublicInputs(generate_commitments(cb, cr),
                                                 Sum(cb), n)]]
    /\ res = [p \in Players |-> TRUE]
    /\ n_placed = 0
    /\ pc = "turn_a"
    /\ winner = "none"
    /\ ended_by = "none"
    /\ last = NoTurn
    /\ calls = [p \in Players |->
                  [place |-> num_ships, commit |-> 1, prove |-> 1, verify |-> 1]]
    /\ turns = [n |-> 0, valid |-> TRUE]
    /\ twin = NoTwin

NextPlay == \E t \in 0..MaxLen : Turn(t) /\ UNCHANGED twin

SpecPlay == InitPlay /\ [][NextPlay]_vars

(***************************************************************************)
(* SpecTwin: the turn loop of main run twice on the same typed attacks of   *)
(* player A, against two boards of player B that hold the same number of   *)
(* ships.  The first run is the game's own state; the second run is kept   *)
(* in twin.  generate_randomness does not look at the board, so both runs  *)
(* have the same draws; one draw is followed, in which the values of Rand  *)
(* come up in turn.  Player A's own board has its ships on the first cells *)
(* and player B types the highest tile still unknown, which leaves player  *)
(* A board_size attacks before the game can end.                           *)
(***************************************************************************)
RandInTurn(n) == [i \in 1..n |-> ((i - 1) % NumRand) + 1]

ShipsFirst(n, k) == [i \in 1..n |-> IF i <= k THEN 1 ELSE 0]

HighestUnknown(v) ==
    CHOOSE i \in DOMAIN v : v[i] = 0 /\ \A j \in DOMAIN v : v[j] = 0 => j <= i

InitTwin ==
    /\ circuit = NoCircuit
    /\ cs_result = "none"
    /\ \E n \in 1..TwinLen :
       \E b1 \in [1..n -> {0, 1}], b2 \in [1..n -> {0, 1}] :
       \E rnd \in {RandInTurn(n)} :
          /\ Sum(b1) = Sum(b2)
          /\ board_size = n
          /\ num_ships = Sum(b1)
          /\ board = [p \in Players |->
                        IF p = "a" THEN ShipsFirst(n, Sum(b1)) ELSE b1]
          /\ randomness = [p \in Players |-> rnd]
          /\ commitments = [p \in Players |-> generate_commitments(board[p], rnd)]
          /\ committed = [p \in Players |-> [board |-> board[p], rand |-> rnd]]
          /\ view_board = [p \in Players |-> Zeros(n)]
          /\ opened = [p \in Players |-> Zeros(n)]
          /\ proof = [p \in Players |->
                        [valid |-> TRUE,
                         inputs |-> PublicInputs(commitments[p], num_ships, n)]]
          /\ twin = [board |-> b2, placed |-> b2,
                     commitments |-> generate_commitments(b2, rnd),
                     view_board |-> Zeros(n), opened |-> Zeros(n),
                     kind |-> "none", over |-> FALSE]
    /\ res = [p \in Players |-> TRUE]
    /\ n_placed = 0
    /\ pc = "turn_a"
    /\ winner = "none"
    /\ ended_by = "none"
    /\ last = NoTurn
    /\ calls = [p \in Players |->
                  [place |-> num_ships, commit |-> 1, prove |-> 1, verify |-> 1]]
    /\ turns = [n |-> 0, valid |-> TRUE]

\* The second run of player A's perform_turn and check_winner on tile t.
twin_turn(t) ==
    LET r == perform_turn(twin.board, twin.view_board, randomness["b"],
                          twin.commitments, t)
        called == r.kind \in {"hit", "miss", "cheat"}
    IN  [twin EXCEPT
            !.board = r.p_board,
            !.view_board = r.view_board,
            !.opened = IF called THEN [@ EXCEPT ![t + 1] = @ + 1] ELSE @,
            !.kind = r.kind,
            !.over = r.kind = "cheat"
                       \/ (r.kind # "panic" /\ check_winner(r.p_board))]

\* One turn of both runs.  Player B's turn is the same in both.
TwinTurn(t) ==
    /\ pc = "turn_b" =>
          /\ \E i \in DOMAIN view_board["b"] : view_board["b"][i] = 0
          /\ t = HighestUnknown(view_board["b"]) - 1
    /\ Turn(t)
    /\ twin' = IF twin.over THEN twin
               ELSE IF pc = "turn_a" THEN twin_turn(t)
               ELSE [twin EXCEPT !.kind = last'.kind, !.over = pc' = "exit"]

NextTwin == \E t \in 0..TwinLen : TwinTurn(t)

SpecTwin == InitTwin /\ [][NextTwin]_vars

(***************************************************************************)
(* Properties of the game.                                                 *)
(***************************************************************************)
InPlay == pc \in {"turn_a", "turn_b"}

Defender == Other(Attacker)

\* A step of the turn loop on tile last'.t that gets as far as verify_move:
\* the tile is on the board and unknown in the attacker's view.
OpensTile ==
    /\ InPlay
    /\ pc' # pc
    /\ last'.t < Len(view_board[Attacker])
    /\ view_board[Attacker][last'.t + 1] = 0

\* The value and randomness the defender's side reveals for tile last'.t.
RevealedValue == IF board[Defender][last'.t + 1] = 1 THEN 1 ELSE 0
RevealedRand == randomness[Defender][last'.t + 1]

\* C6: play is gated on both setup proofs.  A tile is attacked only if
\* verify_initial_proof returned true for player A's and for player B's proof.
C6_PlayGated ==
    (\E p \in Players : \E i \in DOMAIN view_board[p] : view_board[p][i] # 0)
    => (res["a"] = TRUE /\ res["b"] = TRUE)

\* C7: verify_move accepts exactly the true opening.  The opening of a tile
\* is accepted if the revealed value and randomness are those its commitment
\* was made from at setup, and rejected if either differs.
C7_AcceptsExactlyTrueOpening ==
    [][OpensTile =>
          LET def == Defender
              i == last'.t + 1
              true_opening ==
                  /\ RevealedValue = committed[def].board[i]
                  /\ RevealedRand = committed[def].rand[i]
          IN  /\ true_opening =>
                    (view_board'[Attacker][i] # 0 /\ ended_by' # "verify_move")
              /\ ~true_opening =>
                    (view_board'[Attacker][i] = 0 /\ ended_by' = "verify_move")
      ]_vars

\* A true opening was accepted for player A, then an opening with another
\* randomness was rejected for player B.
C7_Witness ==
    /\ ended_by = "verify_move"
    /\ last.attacker = "b"
    /\ \E i \in DOMAIN view_board["a"] : view_board["a"][i] # 0
    /\ board["a"] = committed["a"].board
    /\ randomness["a"][last.t + 1] # committed["a"].rand[last.t + 1]

\* C8: a commitment mismatch during a move is terminal.  The game ends at
\* once with the attacker as winner, neither the attacker's view nor the
\* defender's board is updated for the tile, and no further turn is taken.
C8_MismatchTerminal ==
    [][/\ (/\ OpensTile
           /\ Commit(RevealedValue, RevealedRand)
                 # commitments[Defender][last'.t + 1])
          => /\ pc' = "exit"
             /\ winner' = Attacker
             /\ view_board' = view_board
             /\ board' = board
       /\ pc # "exit"
      ]_vars

\* The process exited from verify_move on a tile holding a ship, after at
\* least one earlier accepted move.
C8_Witness ==
    /\ pc = "exit"
    /\ ended_by = "verify_move"
    /\ winner = last.attacker
    /\ board[Other(winner)][last.t + 1] = 1
    /\ view_board[winner][last.t + 1] = 0
    /\ \E i \in DOMAIN view_board[winner] : view_board[winner][i] # 0

\* C9: the win condition.  After a completed turn the attacker is declared
\* winner exactly if the defender's board has no ship cell left; otherwise the
\* game goes on; once a winner is declared nothing further happens.
C9_WinCondition ==
    /\ last.kind \in {"hit", "miss", "rejected"} =>
          /\ winner = last.attacker
                <=> (\A i \in DOMAIN board[Other(last.attacker)] :
                        board[Other(last.attacker)][i] # 1)
          /\ winner = "none" <=> InPlay
    /\ winner # "none" =>
          /\ winner = last.attacker
          /\ pc = "exit"
          /\ ~ENABLED Next

\* Player B sank the last ship of player A.
C9_Witness ==
    /\ winner = "b"
    /\ ended_by = "check_winner"
    /\ last.kind = "hit"
    /\ num_ships = MaxLen
    /\ \E i \in DOMAIN board["b"] : board["b"][i] = 1

\* C10: each tile is opened at most once.  verify_move is called at most once
\* per defender and tile, and an attack on a tile already marked in the
\* attacker's view changes neither board nor view and calls no verify_move.
C10_OpenedOnce ==
    /\ [](\A p \in Players : \A i \in DOMAIN opened[p] : opened[p][i] <= 1)
    /\ [][(/\ InPlay
           /\ pc' # pc
           /\ last'.t < Len(view_board[Attacker])
           /\ view_board[Attacker][last'.t + 1] # 0)
          => /\ view_board' = view_board
             /\ board' = board
             /\ opened' = opened
      ]_vars

\* A tile opened once was attacked again and the attack was rejected.
C10_Witness ==
    /\ last.kind = "rejected"
    /\ opened[Other(last.attacker)][last.t + 1] = 1
    /\ InPlay

\* C11: exact placement.  Once a player's placement loop has run and the
\* board is committed, the board holds exactly num_ships cells of value 1,
\* whatever targets were typed (repeated and off-board targets included),
\* on a board large enough to hold the ships.
C11_ExactPlacement ==
    \A p \in Players :
        (calls[p].commit = 1 /\ num_ships <= board_size)
            => Sum(committed[p].board) = num_ships

\* The tiles of view v that carry a mark.
Marked(v) == {i \in DOMAIN v : v[i] # 0}

\* The number of verify_move calls made so far on tiles of defender p.
Opened(p) == Sum(opened[p])

\* C12: every turn opens exactly one tile.  A turn that runs to its end
\* selects a tile unknown in the attacker's view, calls verify_move exactly
\* once, for that tile, and marks exactly that tile in the attacker's view;
\* no turn ends with the view unchanged.
C12_TurnOpensOneTile ==
    [][(InPlay /\ pc' # pc /\ pc' # "panic")
          => LET att == Attacker
                 i == last'.t + 1
             IN  /\ view_board[att][i] = 0
                 /\ Opened(Defender) + 1 = Sum(opened'[Defender])
                 /\ opened'[Defender][i] = opened[Defender][i] + 1
                 /\ Marked(view_board'[att]) = Marked(view_board[att]) \cup {i}
                 /\ view_board' # view_board
      ]_vars

\* C13: turns strictly alternate.  The first turn of the play phase is
\* player A's, every later turn is taken by the player who did not take the
\* turn before it, also after a rejected selection, and a turn changes the
\* view of one player only.
C13_TurnsAlternate ==
    [][InPlay =>
          /\ last'.attacker =
                (IF last.attacker = "none" THEN "a" ELSE Other(last.attacker))
          /\ view_board'[Other(last'.attacker)] = view_board[Other(last'.attacker)]
          /\ board'[last'.attacker] = board[last'.attacker]
      ]_vars

\* Player A's selection was rejected, and the turn is now player B's; before
\* that each player had taken a turn.
C13_Witness ==
    /\ last = [attacker |-> "a", t |-> last.t, kind |-> "rejected"]
    /\ pc = "turn_b"
    /\ Marked(view_board["b"]) # {}

\* C14: the game terminates.  On a board of at least one cell, when every
\* attack selects a tile of the board that is unknown in the attacker's view,
\* the player to move always has such a tile, at most 2 * board_size turns
\* are taken, and the play phase always ends in exit with a declared winner.
C14_Termination ==
    /\ [](turns.valid /\ turns.n <= 2 * board_size)
    /\ []((InPlay /\ board_size >= 1) =>
            /\ turns.n < 2 * board_size
            /\ \E i \in DOMAIN view_board[Attacker] : view_board[Attacker][i] = 0)
    /\ (InPlay /\ board_size >= 1) ~> (pc = "exit" /\ winner # "none")

\* A game on the largest board that ended only when player A had attacked
\* every tile: 2 * board_size - 1 turns.
C14_Witness ==
    /\ pc = "exit"
    /\ winner = "a"
    /\ board_size = MaxLen
    /\ turns.n = 2 * board_size - 1
    /\ Marked(view_board["a"]) = DOMAIN view_board["a"]

\* C15: the commitment table is established at setup.  Once initialise has
\* committed a player's board, that player's randomness and commitments have
\* board_size entries each, every randomness entry is one draw, and the
\* commitment of every index is the commitment of the cell placed there under
\* the randomness of the same index; the board is the board as placed until
\* the first turn.
C15_CommitmentTable ==
    \A p \in Players :
        calls[p].commit = 1 =>
            /\ Len(randomness[p]) = board_size
            /\ Len(commitments[p]) = board_size
            /\ Len(committed[p].board) = board_size
            /\ \A i \in 1..board_size :
                  /\ randomness[p][i] \in Rand
                  /\ commitments[p][i] =
                        Commit(committed[p].board[i], randomness[p][i])
            /\ last = NoTurn => board[p] = committed[p].board

\* Both players are committed on the largest board, with a ship placed and
\* two different draws of randomness in player B's table.
C15_Witness ==
    /\ calls["a"].commit = 1
    /\ calls["b"].commit = 1
    /\ board_size = MaxLen
    /\ Sum(board["b"]) >= 1
    /\ \E i, j \in 1..board_size : randomness["b"][i] # randomness["b"][j]

\* A turn has been taken or is about to be.
PlayBegun == InPlay \/ last # NoTurn

\* C16: setup ordering and single use of proofs.  For each player the
\* placement loop has run before the commitments are made, the commitments
\* before the proof, the proof before its verification; each is done at most
\* once; when play begins each has been done exactly once for both players;
\* and no placement, commitment, proof or verification happens during play.
C16_SetupOrder ==
    /\ [](\A p \in Players :
            /\ calls[p].verify <= calls[p].prove
            /\ calls[p].prove <= calls[p].commit
            /\ calls[p].commit <= 1
            /\ calls[p].commit = 1 => calls[p].place = num_ships
            /\ PlayBegun => calls[p] = [place |-> num_ships, commit |-> 1,
                                        prove |-> 1, verify |-> 1])
    /\ [][/\ \A p \in Players :
               calls[p].commit = 1 => calls'[p].place = calls[p].place
          /\ PlayBegun => calls' = calls
         ]_vars

\* Play has ended after at least one turn of each player, with ships placed.
C16_Witness ==
    /\ pc = "exit"
    /\ last.attacker = "b"
    /\ num_ships >= 1
    /\ \A p \in Players : calls[p].verify = 1

\* The sequences that hold the entries of s in some order.
Reorderings(s) ==
    {[i \in DOMAIN s |-> s[f[i]]] :
        f \in {g \in [DOMAIN s -> DOMAIN s] :
                  \A i, j \in DOMAIN s : g[i] = g[j] => i = j}}

\* C17: the public inputs agree in order.  verify_initial_proof builds
\* ships, b_size, then the commitments in board order, which is the vector
\* the proof was made for, so a verified proof is accepted exactly if the
\* prover's circuit was satisfied; the same proof is not accepted with the
\* commitments in another order or with ships and b_size exchanged.
C17_InputOrder ==
    \A p \in Players :
        calls[p].verify = 1 =>
            /\ PublicInputs(commitments[p], num_ships, board_size)
                  = <<num_ships, board_size>> \o commitments[p]
            /\ proof[p].inputs
                  = PublicInputs(commitments[p], num_ships, board_size)
            /\ res[p] = proof[p].valid
            /\ \A q \in Reorderings(commitments[p]) :
                  q # commitments[p] =>
                      ~verify_initial_proof(q, num_ships, board_size, proof[p])
            /\ num_ships # board_size =>
                  ~verify_initial_proof(commitments[p], board_size, num_ships,
                                        proof[p])

\* Player B's proof was accepted on the largest board, where the ship count
\* differs from the board size and two commitments differ.
C17_Witness ==
    /\ calls["b"].verify = 1
    /\ res["b"] = TRUE
    /\ board_size = MaxLen
    /\ num_ships # board_size
    /\ \E i, j \in 1..board_size : commitments["b"][i] # commitments["b"][j]

\* Sequences s and s2 have the same length and differ at most at index i.
SameExceptAt(s, s2, i) ==
    /\ Len(s2) = Len(s)
    /\ \A j \in DOMAIN s : j # i => s2[j] = s[j]

\* C18: the frame of a turn.  A turn in which X attacks Y changes at most
\* X's view at the attacked tile and Y's board at the attacked tile; X's
\* board, Y's view, every other tile and both players' randomness and
\* commitments are unchanged.
C18_TurnFrame ==
    [][InPlay =>
          LET att == last'.attacker
              def == Other(att)
              i == last'.t + 1
          IN  /\ board'[att] = board[att]
              /\ view_board'[def] = view_board[def]
              /\ SameExceptAt(view_board[att], view_board'[att], i)
              /\ SameExceptAt(board[def], board'[def], i)
              /\ randomness' = randomness
              /\ commitments' = commitments
      ]_vars

\* Player A hit the second tile of B's board; B has a ship left on the first
\* tile and the game goes on.
C18_Witness ==
    /\ last = [attacker |-> "a", t |-> 1, kind |-> "hit"]
    /\ pc = "turn_b"
    /\ board["b"][1] = 1
    /\ view_board["a"][2] # 0

\* C19: the encoding of a view board.  A tile of a view is 0 while unknown;
\* once an attack on it has been accepted it is 1 if the defender had placed
\* a ship there and 2 if not.
C19_ViewEncoding ==
    \A p \in Players : \A i \in DOMAIN view_board[p] :
        /\ view_board[p][i] \in {0, 1, 2}
        /\ view_board[p][i] = 0 <=> opened[Other(p)][i] = 0
        /\ view_board[p][i] # 0 =>
              (view_board[p][i] = 1 <=> committed[Other(p)].board[i] = 1)

\* The number of ship cells left on board b.
LiveShips(b) == Sum(b)

\* The tiles of view v that perform_turn recorded as hit.
HitTiles(v) == {i \in DOMAIN v : v[i] = HitMark}

\* C20: the live ship count.  A hit (an attack on an unknown tile holding a
\* ship) lowers the defender's live ship count by exactly one; any other
\* turn leaves it unchanged; and once a defender's board is committed, its
\* live ship count is the number of ship cells placed minus the number of
\* tiles recorded as hit in the attacker's view.
C20_LiveShipCount ==
    /\ [](\A p \in Players :
            calls[Other(p)].commit = 1 =>
                LiveShips(board[Other(p)])
                    = LiveShips(committed[Other(p)].board)
                        - Cardinality(HitTiles(view_board[p])))
    /\ [][InPlay =>
            LET att == last'.attacker
                def == Other(att)
                i == last'.t + 1
                is_hit == /\ i \in DOMAIN view_board[att]
                          /\ view_board[att][i] = 0
                          /\ board[def][i] = 1
            IN  /\ is_hit =>
                      LiveShips(board'[def]) = LiveShips(board[def]) - 1
                /\ ~is_hit =>
                      LiveShips(board'[def]) = LiveShips(board[def])
                /\ LiveShips(board'[att]) = LiveShips(board[att])
         ]_vars

\* After a hit and then a rejected selection on player B's board, B has one
\* ship of two left.
C20_Witness ==
    /\ last = [attacker |-> "a", t |-> last.t, kind |-> "rejected"]
    /\ LiveShips(committed["b"].board) = 2
    /\ LiveShips(board["b"]) = 1
    /\ Cardinality(HitTiles(view_board["a"])) = 1

\* C21: the revealed value is the committed value.  In the reference game,
\* on every tile still unknown in the attacker's view the defender's live
\* board holds the value committed at setup, with the randomness and the
\* commitment made for it, so the value handed to verify_move opens the
\* stored commitment and verify_move never ends the game.
C21_RevealedIsCommitted ==
    /\ \A p \in Players :
          calls[Other(p)].commit = 1 =>
              \A i \in DOMAIN view_board[p] :
                  view_board[p][i] = 0 =>
                      /\ board[Other(p)][i] = committed[Other(p)].board[i]
                      /\ verify_move(board[Other(p)][i], randomness[Other(p)][i],
                                     commitments[Other(p)][i])
    /\ last.kind # "cheat"
    /\ ended_by # "verify_move"

\* Player A hit a ship while another ship tile of player B is still unknown,
\* and the game goes on.
C21_Witness ==
    /\ last.kind = "hit"
    /\ last.attacker = "a"
    /\ InPlay
    /\ \E i \in DOMAIN view_board["a"] :
          view_board["a"][i] = 0 /\ committed["b"].board[i] = 1

\* C22: reported outcomes are honest.  A tile of a view carries the hit mark
\* only if it was attacked and the defender's board had a ship there when it
\* was committed, the miss mark only if it was attacked and that board had no
\* ship there, and every tile that was not attacked is unknown.
C22_HonestOutcomes ==
    \A p \in Players : \A i \in DOMAIN view_board[p] :
        /\ view_board[p][i] \in {0, HitMark, MissMark}
        /\ view_board[p][i] = HitMark =>
              (opened[Other(p)][i] >= 1 /\ committed[Other(p)].board[i] = 1)
        /\ view_board[p][i] = MissMark =>
              (opened[Other(p)][i] >= 1 /\ committed[Other(p)].board[i] # 1)
        /\ opened[Other(p)][i] = 0 => view_board[p][i] = 0

\* Player A's view of the largest board shows a hit and a miss.
C22_Witness ==
    /\ board_size = MaxLen
    /\ \E i, j \in DOMAIN view_board["a"] :
          view_board["a"][i] = HitMark /\ view_board["a"][j] = MissMark

\* C23: the circuit binds exactly board_size commitments.  When the circuit
\* is satisfied, the commitments list has exactly b_size entries and every
\* entry of it is the commitment of the cell and randomness of its index
\* (stated for boards of at least one cell).
C23_BindsAllCommitments ==
    (cs_result = "satisfied" /\ circuit.b_size >= 1) =>
        /\ Len(circuit.commitments) = circuit.b_size
        /\ \A i \in DOMAIN circuit.commitments :
              /\ i \in DOMAIN circuit.board
              /\ OpensAt(i)

\* An iteration of a placement loop is about to read its target.
InPlacement == pc \in {"place_a", "place_b"} /\ n_placed < num_ships

\* C24: an off-board placement is rejected safely.  On a board of at least
\* one cell, an iteration of a placement loop never aborts the process,
\* whatever target is typed (the board's length included), and it changes
\* the board only by placing a ship on an empty cell of the board.
C24_OffBoardRejected ==
    [][(InPlacement /\ board_size >= 1) =>
          /\ pc' # "panic"
          /\ \/ board' = board
             \/ \E i \in DOMAIN board[Placing] :
                   /\ board[Placing][i] = 0
                   /\ board' = [board EXCEPT ![Placing][i] = 1]
      ]_vars

\* The two boards of player B held the same value on every tile that player
\* A has attacked in either run.
TwinsAgree ==
    \A i \in DOMAIN twin.placed :
        (opened["b"][i] >= 1 \/ twin.opened[i] >= 1)
            => committed["b"].board[i] = twin.placed[i]

\* What player A has observed in a run: the result of the last turn, the
\* view, the number of ships left, the tiles opened with the value and the
\* randomness opened for each, and whether the game is over.
Observed(kind, view, live, open, placed, over) ==
    [kind |-> kind, view |-> view, ships_left |-> Sum(live),
     openings |-> {<<i, placed[i], randomness["b"][i]>> :
                      i \in {j \in DOMAIN open : open[j] >= 1}},
     over |-> over]

\* C25: only attacked tiles are revealed.  For two boards of the defender
\* with the same number of ships that agree on every tile attacked so far,
\* the same attacks give the attacker the same observations (results, view,
\* ships left, opened values and randomness, end of the game); and a move
\* opens the attacked tile only.
C25_OnlyAttackedRevealed ==
    /\ [](TwinsAgree =>
            Observed(last.kind, view_board["a"], board["b"], opened["b"],
                     committed["b"].board, pc \in {"exit", "panic"})
            = Observed(twin.kind, twin.view_board, twin.board, twin.opened,
                       twin.placed, twin.over \/ twin.kind = "panic"))
    /\ [][\A i \in DOMAIN twin.placed :
             i # last'.t + 1 =>
                 /\ opened'["b"][i] = opened["b"][i]
                 /\ twin'.opened[i] = twin.opened[i]
         ]_vars

\* Player A hit one tile and missed another on two boards of player B that
\* differ elsewhere, and saw the same in both runs.
C25_Witness ==
    /\ twin.placed # committed["b"].board
    /\ TwinsAgree
    /\ \E i, j \in DOMAIN view_board["a"] :
          view_board["a"][i] = HitMark /\ view_board["a"][j] = MissMark
    /\ twin.view_board = view_board["a"]

====
